---- MODULE Spec2Model ----
(***************************************************************************)
(* Survey problem rating dashboard (src/app.py): the ratings worksheet,    *)
(* save_rating / load_ratings / get_rating_for_problem, and the script     *)
(* main() that Streamlit runs from the top on every interaction of a       *)
(* browser session.                                                        *)
(***************************************************************************)
EXTENDS Integers, Sequences, FiniteSets, TLC

\* ---------------------------------------------------------------- bounds
\* Largest catalog (rows of problems.csv) the model draws.
MaxProblems == 3
\* Largest number of data rows the worksheet may hold (appends stop there).
MaxRows == 2
\* The rating buttons the modelled raters press are 1..MaxRatingUsed.
MaxRatingUsed == 2
\* Number of sessions that run save_rating concurrently in SpecConc.
NumWriters == 2

\* ------------------------------------------------------------- constants
RATING_SCALE == 1..5

RATER_ASSIGNMENTS ==
  [Tom |-> "first_half", Caroline |-> "first_half", Becky |-> "second_half",
   Alice |-> "second_half", Patrick |-> "all"]

\* The names the modelled sessions pick in the selector: two raters of the
\* same half, one of the other half, and the rater of all problems.
RaterChoices == {"Tom", "Caroline", "Becky", "Patrick"}

\* The rating buttons the modelled raters press.
RatingChoices == {r \in RATING_SCALE : r <= MaxRatingUsed}

\* Row 1 of the worksheet.
HEADER == <<"problem_index", "question_id", "rating", "rater_id">>

\* None, where the code returns or stores None for a rating.
NoRating == 0
\* current_index not yet in st.session_state / no matching DataFrame row.
NoIndex == 0 - 1

\* ------------------------------------------------------- python helpers
\* list(range(a, b))
Range(a, b) == [k \in 1..(b - a) |-> a + k - 1]

Elems(s) == {s[k] : k \in 1..Len(s)}

MinOf(S) == CHOOSE x \in S : \A y \in S : x <= y

\* A position counted from 1.
IndexOfOneBased(s, x) == MinOf({k \in 1..Len(s) : s[k] = x})

\* list.index(x): the 0-based position of x in s (x is in s).
IndexOf(s, x) == MinOf({k \in 1..Len(s) : s[k] = x}) - 1

\* s[i] of a python list: is the (possibly negative) index i inside the list?
PyInRange(s, i) == IF i >= 0 THEN i < Len(s) ELSE 0 - i <= Len(s)

\* s[i] of a python list, negative indices counting from the end.
PyGet(s, i) == IF i >= 0 THEN s[i + 1] ELSE s[Len(s) + i + 1]

\* problems_df.iloc[i]['question_id']: the catalog's question id of problem i.
QuestionId(i) == 1000 + i

\* ------------------------------------------------------------ assignment
\* A half point rounded up instead of down.
HalfPointRoundedUp(N) == (N + 1) \div 2

HalfPoint(N) == N \div 2

AssignedProblems(rater, N) ==
  LET assignment == RATER_ASSIGNMENTS[rater]
      half_point == HalfPoint(N)
  IN  IF assignment = "first_half" THEN Range(0, half_point)
      ELSE IF assignment = "second_half" THEN Range(half_point, N)
      ELSE Range(0, N)

\* ------------------------------------------------------------ worksheet
\* worksheet.get_all_records(): one record per row below the header; the
\* record at position k is the DataFrame row of index k - 1.
Records(ws) ==
  [k \in 1..(Len(ws) - 1) |->
     [problem_index |-> ws[k + 1][1], question_id |-> ws[k + 1][2],
      rating |-> ws[k + 1][3], rater_id |-> ws[k + 1][4]]]

\* A load that answers a failed read from the rows instead of degrading.
LoadRatingsUndegraded(ws, conn, read_ok) ==
  IF conn THEN Records(ws) ELSE << >>

\* load_ratings(): the records, or the empty frame when the worksheet is not
\* connected or the read raises.
LoadRatings(ws, conn, read_ok) ==
  IF conn /\ read_ok THEN Records(ws) ELSE << >>

\* A mask that matches the rows of every rater.
MaskAnyRater(df, pi, rater) ==
  {k \in 1..Len(df) : df[k].problem_index = pi}

\* mask = (df.problem_index == pi) & (df.rater_id == rater), as positions.
Mask(df, pi, rater) ==
  {k \in 1..Len(df) : df[k].problem_index = pi /\ df[k].rater_id = rater}

\* get_rating_for_problem, given what its load_ratings() returned.
GetRatingForProblem(df, pi, rater) ==
  IF Mask(df, pi, rater) # {}
  THEN df[MinOf(Mask(df, pi, rater))].rating
  ELSE NoRating

\* ratings_df[mask].index[0], or NoIndex when mask.any() is false.
ScanKey(df, pi, rater) ==
  IF Mask(df, pi, rater) # {} THEN MinOf(Mask(df, pi, rater)) - 1 ELSE NoIndex

\* A row number that forgets the header row.
RowNumNoHeader(row_idx) == row_idx + 1

\* row_num = row_idx + 2
RowNum(row_idx) == row_idx + 2

\* worksheet.update(<col><row_num>, [[val]])
UpdateCell(ws, row_num, col, val) ==
  IF row_num \in 1..Len(ws) THEN [ws EXCEPT ![row_num][col] = val] ELSE ws

\* An append that writes over the last row instead of after it.
AppendRowOverLast(ws, row) ==
  IF Len(ws) > 1 THEN [ws EXCEPT ![Len(ws)] = row] ELSE Append(ws, row)

\* worksheet.append_row(row)
AppendRow(ws, row) == Append(ws, row)

\* The write step of save_rating: update the rating cell of the row the scan
\* found, or append a row when it found none.
WriteRating(ws, row_idx, pi, qid, rating, rater) ==
  IF row_idx # NoIndex
  THEN UpdateCell(ws, RowNum(row_idx), 3, rating)
  ELSE AppendRow(ws, <<pi, qid, rating, rater>>)

\* save_rating: the worksheet after the call, whether it returned a frame
\* ("ok") or None ("failed"), and what its scan and its write did.
SaveRating(ws, conn, pi, qid, rating, rater, scan_ok, write_ok) ==
  IF ~conn
  THEN [ws |-> ws, result |-> "failed", scan |-> "none", write |-> "none"]
  ELSE LET df == LoadRatings(ws, conn, scan_ok)
           row_idx == ScanKey(df, pi, rater)
           scan == IF scan_ok THEN "ok" ELSE "failed"
       IN  IF write_ok
           THEN [ws |-> WriteRating(ws, row_idx, pi, qid, rating, rater),
                 result |-> "ok", scan |-> scan,
                 write |-> IF row_idx # NoIndex THEN "update" ELSE "append"]
           ELSE [ws |-> ws, result |-> "failed", scan |-> scan,
                 write |-> "failed"]

\* A handler that does not test the result of save_rating.
ResultIgnored(result) == TRUE

\* `if result is not None`
IsNotNone(result) == result # "failed"

\* ------------------------------------------------------------- main()
\* num_rated of the progress tracking, given what load_ratings() returned.
NumRated(df, rater, assigned) ==
  IF Len(df) > 0
  THEN Cardinality({k \in 1..Len(df) :
                      /\ df[k].rater_id = rater
                      /\ df[k].problem_index \in Elems(assigned)})
  ELSE 0

\* A filter that keeps the indices whose get_rating_for_problem is not None.
RatedIndicesKept(ws, conn, rater, assigned, F) ==
  LET rated(i) ==
        GetRatingForProblem(LoadRatings(ws, conn, i \notin F), i, rater)
          # NoRating
  IN  SelectSeq(assigned, rated)

\* unrated_indices: the assigned indices whose get_rating_for_problem is
\* None; the read of index i raises when i is in F.
UnratedIndices(ws, conn, rater, assigned, F) ==
  LET unrated(i) ==
        GetRatingForProblem(LoadRatings(ws, conn, i \notin F), i, rater)
          = NoRating
  IN  SelectSeq(assigned, unrated)

\* The last unrated index instead of the first.
LastOf(unrated_indices) == unrated_indices[Len(unrated_indices)]

\* unrated_indices[0]
FirstOf(unrated_indices) == unrated_indices[1]

\* A cursor that is initialised but never brought back into the range.
ClampInitOnly(cur, assigned) == IF cur = NoIndex THEN assigned[1] ELSE cur

\* The cursor after its initialisation and the check that it is within the
\* assigned problems.
Clamp(cur, assigned) ==
  IF cur = NoIndex \/ cur \notin Elems(assigned) THEN assigned[1] ELSE cur

\* One run of main() with no button pressed, from the rater selection to the
\* current problem: the view it ends in, the cursor and the checkbox. F: the
\* reads of the unrated filter that raise.
Script(ws, conn, N, cur, rater, show, F) ==
  LET assigned == AssignedProblems(rater, N)
  IN  IF Len(assigned) = 0
      THEN [view |-> "error", cur |-> cur, show |-> FALSE]
      ELSE
        LET c1 == Clamp(cur, assigned)
            unrated_indices == UnratedIndices(ws, conn, rater, assigned, F)
        IN  IF show
            THEN IF Len(unrated_indices) > 0
                 THEN [view |-> "problem",
                       cur |-> IF c1 \notin Elems(unrated_indices)
                               THEN FirstOf(unrated_indices) ELSE c1,
                       show |-> show]
                 ELSE [view |-> "all_rated", cur |-> c1, show |-> show]
            ELSE [view |-> "problem", cur |-> c1, show |-> show]

\* num_rated as the run computes it before the sidebar is drawn: 0 when the
\* run stops at the assignment, else the count over what load_ratings()
\* returned (pok: that read succeeds).
Progress(ws, conn, N, rater, pok) ==
  LET assigned == AssignedProblems(rater, N)
  IN  IF Len(assigned) = 0 THEN 0
      ELSE NumRated(LoadRatings(ws, conn, pok), rater, assigned)

\* ---------------------------------------------------------------- state
VARIABLES
  total_problems,     \* len(problems_df)
  connected,          \* init_gsheet() returned a worksheet (cached)
  worksheet,          \* the rows of the "Ratings" worksheet, header first
  rater_id,           \* the selectbox value of the session
  ss_rater_id,        \* st.session_state.rater_id
  current_index,      \* st.session_state.current_index
  show_unrated_only,  \* the checkbox
  view,               \* what the last run left on the page
  out,                \* what the last interaction did
  last_set,           \* per key, the rating of the last set that returned ok
  ops                 \* the save_rating calls of the concurrent sessions

vars == <<total_problems, connected, worksheet, rater_id, ss_rater_id,
          current_index, show_unrated_only, view, out, last_set, ops>>

Writers == 1..NumWriters

Keys == (0..(MaxProblems - 1)) \X RaterChoices

IdleOp == [pc |-> "idle", rater |-> "", pi |-> NoIndex, rating |-> NoRating,
           row_idx |-> NoIndex]

\* out of an interaction that did not reach save_rating.
NoOut ==
  [result |-> "none", scan |-> "none", write |-> "none", idx |-> NoIndex,
   rated_msg |-> FALSE, complete |-> FALSE, num_rated |-> 0]

\* The reads of the unrated filter that may raise. A read that raises makes
\* its index count as unrated, which changes nothing for an index without a
\* row: the sets range over the indices that have one.
FailSets(ws, show, rater) ==
  IF show /\ rater # "" /\ connected
  THEN SUBSET {i \in Elems(AssignedProblems(rater, total_problems)) :
                 GetRatingForProblem(Records(ws), i, rater) # NoRating}
  ELSE {{}}

\* Whether a store access may raise: only a connected worksheet is accessed.
Outcomes == IF connected THEN BOOLEAN ELSE {TRUE}

Init ==
  /\ total_problems \in 0..MaxProblems
  /\ connected \in BOOLEAN
  /\ worksheet = <<HEADER>>
  /\ rater_id = ""
  /\ ss_rater_id = ""
  /\ current_index = NoIndex
  /\ show_unrated_only = FALSE
  /\ view = "select"
  /\ out = NoOut
  /\ last_set = [k \in Keys |-> NoRating]
  /\ ops = [w \in Writers |-> IdleOp]

\* The page a finished run leaves; ws is the worksheet its progress read saw.
Finish(run, ws, rater, o) ==
  /\ current_index' = run.cur
  /\ view' = run.view
  /\ show_unrated_only' = run.show
  /\ \E pok \in Outcomes :
       out' = [o EXCEPT !.num_rated =
                 Progress(ws, connected, total_problems, rater, pok)]

\* A run of main() with no button pressed, started with the cursor at cur.
Run(cur, rater, show, ws, o) ==
  \E F \in FailSets(ws, show, rater) :
    Finish(Script(ws, connected, total_problems, cur, rater, show, F),
           ws, rater, o)

\* The selectbox changes to name: "" stops the run at the warning.
SelectRater(name) ==
  /\ name # rater_id
  /\ rater_id' = name
  /\ IF name = ""
     THEN /\ ss_rater_id' = ss_rater_id
          /\ current_index' = current_index
          /\ view' = "select"
          /\ show_unrated_only' = FALSE
          /\ out' = NoOut
     ELSE /\ ss_rater_id' = name
          /\ Run(current_index, name, show_unrated_only, worksheet,
                 NoOut)
  /\ UNCHANGED <<total_problems, connected, worksheet, last_set, ops>>

\* A run with no button pressed (a widget of the sidebar was edited).
Rerun ==
  /\ view \in {"problem", "problem_error", "all_rated"}
  /\ Run(current_index, rater_id, show_unrated_only, worksheet,
         NoOut)
  /\ UNCHANGED <<total_problems, connected, worksheet, rater_id, ss_rater_id,
                 last_set, ops>>

\* "Go": current_index = jump_to - 1, then st.rerun(). The number input
\* keeps jump_to within min_problem..max_problem.
Go(jump_to) ==
  /\ view \in {"problem", "problem_error", "all_rated"}
  /\ LET assigned == AssignedProblems(rater_id, total_problems)
         min_problem == assigned[1] + 1
         max_problem == assigned[Len(assigned)] + 1
     IN  /\ jump_to \in min_problem..max_problem
         /\ Run(jump_to - 1, rater_id, show_unrated_only, worksheet,
                NoOut)
  /\ UNCHANGED <<total_problems, connected, worksheet, rater_id, ss_rater_id,
                 last_set, ops>>

\* The "Show unrated problems only" checkbox is toggled.
ToggleUnrated ==
  /\ view \in {"problem", "problem_error", "all_rated"}
  /\ Run(current_index, rater_id, ~show_unrated_only, worksheet,
         NoOut)
  /\ UNCHANGED <<total_problems, connected, worksheet, rater_id, ss_rater_id,
                 last_set, ops>>

\* A rating button is pressed: the run reaches the buttons only if its filter
\* leaves a problem to show; it then saves at the cursor of this run and, on
\* a result that is not None, moves on (st.rerun) or reports completion.
Rate(rating_num) ==
  /\ view \in {"problem", "problem_error"}
  /\ \E F1 \in FailSets(worksheet, show_unrated_only, rater_id) :
       LET run1 == Script(worksheet, connected, total_problems, current_index,
                          rater_id, show_unrated_only, F1)
       IN  IF run1.view # "problem"
           THEN /\ Finish(run1, worksheet, rater_id, NoOut)
                /\ UNCHANGED <<worksheet, last_set>>
           ELSE \E scan_ok \in Outcomes, write_ok \in Outcomes :
             LET current_idx == run1.cur
                 assigned == AssignedProblems(rater_id, total_problems)
                 sv == SaveRating(worksheet, connected, current_idx,
                                  QuestionId(current_idx), rating_num,
                                  rater_id, scan_ok, write_ok)
                 current_position == IndexOf(assigned, current_idx)
                 o == [result |-> sv.result,
                       scan |-> sv.scan, write |-> sv.write,
                       idx |-> current_idx,
                       rated_msg |-> IsNotNone(sv.result),
                       complete |-> FALSE, num_rated |-> 0]
             IN  /\ sv.write = "append" => Len(worksheet) <= MaxRows
                 /\ worksheet' = sv.ws
                 /\ last_set' =
                      IF sv.result = "ok"
                      THEN [last_set EXCEPT ![<<current_idx, rater_id>>] =
                                              rating_num]
                      ELSE last_set
                 /\ IF IsNotNone(sv.result)
                    THEN IF current_position < Len(assigned) - 1
                         THEN Run(assigned[current_position + 2], rater_id,
                                  show_unrated_only, sv.ws, o)
                         ELSE Finish(run1, worksheet, rater_id,
                                     [o EXCEPT !.complete = TRUE])
                    ELSE Finish(run1, worksheet, rater_id, o)
  /\ UNCHANGED <<total_problems, connected, rater_id, ss_rater_id, ops>>

\* "Previous" / "Next" (step = -1 / +1), enabled on the page unless the
\* cursor shown is the first / last assigned index. The run that handles the
\* press indexes assigned_problems at the position of its own cursor.
Move(step) ==
  /\ view = "problem"
  /\ LET assigned == AssignedProblems(rater_id, total_problems)
         shown == IndexOf(assigned, current_index)
     IN  /\ step = 0 - 1 => shown # 0
         /\ step = 1 => shown # Len(assigned) - 1
         /\ \E F1 \in FailSets(worksheet, show_unrated_only, rater_id) :
              LET run1 == Script(worksheet, connected, total_problems,
                                 current_index, rater_id, show_unrated_only,
                                 F1)
                  target == IndexOf(assigned, run1.cur) + step
              IN  IF run1.view # "problem"
                  THEN Finish(run1, worksheet, rater_id, NoOut)
                  ELSE IF ~PyInRange(assigned, target)
                  THEN Finish([run1 EXCEPT !.view = "problem_error"],
                              worksheet, rater_id, NoOut)
                  ELSE Run(PyGet(assigned, target), rater_id,
                           show_unrated_only, worksheet, NoOut)
  /\ UNCHANGED <<total_problems, connected, worksheet, rater_id, ss_rater_id,
                 last_set, ops>>

\* A "Previous" that steps forward.
PreviousAsNext == Move(1)

Previous == Move(0 - 1)

NextProblem == Move(1)

Next ==
  \/ \E name \in RaterChoices \cup {""} : SelectRater(name)
  \/ Rerun
  \/ \E jump_to \in 1..MaxProblems : Go(jump_to)
  \/ ToggleUnrated
  \/ \E rating_num \in RatingChoices : Rate(rating_num)
  \/ Previous
  \/ NextProblem

Spec == Init /\ [][Next]_vars

\* ------------------------------------------------- concurrent sessions
\* Sessions of other browsers run the same save_rating against the shared
\* worksheet; nothing orders the steps of one call against those of another.

\* A session picks its name in the selector.
ConcSelect(w, name) ==
  /\ ops[w].pc = "idle"
  /\ ops[w].rater = ""
  /\ ops' = [ops EXCEPT ![w].rater = name]
  /\ UNCHANGED <<total_problems, connected, worksheet, rater_id, ss_rater_id,
                 current_index, show_unrated_only, view, out, last_set>>

\* The session presses a rating button on one of its assigned problems:
\* save_rating is entered and finds the worksheet connected.
ConcBegin(w, pi, rating) ==
  /\ connected
  /\ ops[w].pc = "idle"
  /\ ops[w].rater # ""
  /\ pi \in Elems(AssignedProblems(ops[w].rater, total_problems))
  /\ ops' = [ops EXCEPT ![w].pc = "scan", ![w].pi = pi, ![w].rating = rating]
  /\ UNCHANGED <<total_problems, connected, worksheet, rater_id, ss_rater_id,
                 current_index, show_unrated_only, view, out, last_set>>

\* The scan step: load_ratings() and the mask.
ConcScan(w) ==
  /\ ops[w].pc = "scan"
  /\ \E scan_ok \in BOOLEAN :
       ops' = [ops EXCEPT
                 ![w].pc = "write",
                 ![w].row_idx = ScanKey(LoadRatings(worksheet, connected,
                                                    scan_ok),
                                        ops[w].pi, ops[w].rater)]
  /\ UNCHANGED <<total_problems, connected, worksheet, rater_id, ss_rater_id,
                 current_index, show_unrated_only, view, out, last_set>>

\* The write step: update the cell of the row the scan found, or append; a
\* write that raises makes the call return None.
ConcWrite(w) ==
  /\ ops[w].pc = "write"
  /\ \E write_ok \in BOOLEAN :
       IF write_ok
       THEN /\ ops[w].row_idx = NoIndex => Len(worksheet) <= MaxRows
            /\ worksheet' = WriteRating(worksheet, ops[w].row_idx, ops[w].pi,
                                        QuestionId(ops[w].pi), ops[w].rating,
                                        ops[w].rater)
            /\ last_set' = [last_set EXCEPT ![<<ops[w].pi, ops[w].rater>>] =
                                              ops[w].rating]
       ELSE UNCHANGED <<worksheet, last_set>>
  /\ ops' = [ops EXCEPT ![w] = [IdleOp EXCEPT !.rater = ops[w].rater]]
  /\ UNCHANGED <<total_problems, connected, rater_id, ss_rater_id,
                 current_index, show_unrated_only, view, out>>

NextConc ==
  \/ \E w \in Writers, name \in RaterChoices : ConcSelect(w, name)
  \/ \E w \in Writers, pi \in 0..(MaxProblems - 1),
        rating \in RatingChoices : ConcBegin(w, pi, rating)
  \/ \E w \in Writers : ConcScan(w)
  \/ \E w \in Writers : ConcWrite(w)

SpecConc == Init /\ [][NextConc]_vars

\* ================================================================ claims
\* The data rows of the worksheet (row 1 is the header).
DataRows == 2..Len(worksheet)

\* The data rows that carry the key (pi, rater).
RowsOfKey(ws, pi, rater) ==
  {k \in 2..Len(ws) : ws[k][1] = pi /\ ws[k][4] = rater}

\* get(pi, rater) when its read of the worksheet succeeds.
Get(ws, pi, rater) ==
  GetRatingForProblem(LoadRatings(ws, connected, TRUE), pi, rater)

\* The assigned range of the session's rater.
Assigned == AssignedProblems(rater_id, total_problems)

\* C1: the store holds at most one row per (problem_index, rater_id) pair,
\* after any sequence of set operations handled one at a time, each store
\* access succeeding or failing.
C1_OneRowPerKey ==
  \A j \in DataRows, k \in DataRows :
    (worksheet[j][1] = worksheet[k][1] /\ worksheet[j][4] = worksheet[k][4])
      => j = k

\* C2: for every key, get returns the rating of the most recent set of that
\* key that succeeded, and absent if none has.
C2_GetReturnsLastSet ==
  \A key \in Keys : Get(worksheet, key[1], key[2]) = last_set[key]

\* C5: a set by one rater leaves every row of any other rater, and what get
\* returns for any other rater at any index, unchanged.
C5_SetIsolation ==
  [][ Tail(worksheet') # Tail(worksheet) =>
        /\ \A k \in DataRows :
             worksheet[k][4] # rater_id =>
               k <= Len(worksheet') /\ worksheet'[k] = worksheet[k]
        /\ \A k \in 2..Len(worksheet') :
             k > Len(worksheet) => worksheet'[k][4] = rater_id
        /\ \A b \in RaterChoices \ {rater_id}, j \in 0..(MaxProblems - 1) :
             Get(worksheet', j, b) = Get(worksheet, j, b) ]_vars

\* C5 witness: a set has updated, by its row number, the row of a rater whose
\* problem also has a row by another rater.
C5_Witness ==
  /\ out.result = "ok" /\ out.write = "update"
  /\ \E k \in DataRows :
       worksheet[k][1] = out.idx /\ worksheet[k][4] # rater_id

\* C6: a set that reports failure leaves the cursor at the problem it was
\* issued for, shows no success or completion message and leaves the rows
\* unchanged; the cursor moves on or a message shows only after a set that
\* wrote its row.
C6_FailedSetChangesNothing ==
  [][ /\ out'.result = "failed" =>
           /\ current_index' = out'.idx
           /\ ~show_unrated_only => current_index' = current_index
           /\ ~out'.rated_msg /\ ~out'.complete
           /\ worksheet' = worksheet
      /\ ( \/ out'.rated_msg \/ out'.complete
           \/ (out'.idx # NoIndex /\ current_index' # out'.idx) ) =>
           /\ out'.write \in {"append", "update"}
           /\ \E k \in 2..Len(worksheet') :
                worksheet'[k] =
                  <<out'.idx, QuestionId(out'.idx),
                    last_set'[<<out'.idx, rater_id>>], rater_id>> ]_vars

\* C6 witness: the write of a set raised while the cursor was not on the last
\* assigned index, and the cursor is still where the set was issued.
C6_Witness ==
  /\ out.result = "failed" /\ out.write = "failed"
  /\ current_index = out.idx
  /\ current_index # Assigned[Len(Assigned)]

\* C7: when the existence scan of set cannot read the store, set reports
\* failure and writes nothing.
C7_ScanFailureBlocksSet ==
  [][ out'.scan = "failed" =>
        (out'.result = "failed" /\ worksheet' = worksheet) ]_vars

\* C8: a second set in a row for the same key with the same rating leaves
\* the number of stored rows unchanged and get returns that rating.
C8_SetTwiceIdempotent ==
  [][ ( /\ out.result = "ok"
        /\ out'.result = "ok"
        /\ out'.idx = out.idx
        /\ last_set'[<<out.idx, rater_id>>] = last_set[<<out.idx, rater_id>>] )
      => /\ Len(worksheet') = Len(worksheet)
         /\ Get(worksheet', out.idx, rater_id)
              = last_set[<<out.idx, rater_id>>] ]_vars

\* C9: for the catalog size N and every rater, first_half is [0, N div 2),
\* second_half is [N div 2, N) and all is [0, N), each in catalog order and
\* inside [0, N); the two halves are disjoint and together are [0, N).
C9_RangesPartition ==
  LET N == total_problems
      first == Elems(AssignedProblems("Tom", N))
      second == Elems(AssignedProblems("Becky", N))
  IN  /\ \A r \in DOMAIN RATER_ASSIGNMENTS :
           LET a == AssignedProblems(r, N)
           IN  /\ Elems(a) \subseteq 0..(N - 1)
               /\ \A k \in 1..(Len(a) - 1) : a[k + 1] = a[k] + 1
               /\ RATER_ASSIGNMENTS[r] = "first_half"
                    => Elems(a) = 0..((N \div 2) - 1)
               /\ RATER_ASSIGNMENTS[r] = "second_half"
                    => Elems(a) = (N \div 2)..(N - 1)
               /\ RATER_ASSIGNMENTS[r] = "all" => Elems(a) = 0..(N - 1)
      /\ first \cap second = {}
      /\ first \cup second = 0..(N - 1)

\* C9 witness: a rater of the second half of a catalog of odd size is shown
\* the first problem of the range.
C9_Witness ==
  /\ total_problems = 3
  /\ rater_id = "Becky" /\ view = "problem" /\ current_index = 1

\* The first index of the assigned range without a row by the rater, or
\* NoIndex when every assigned index has one.
FirstUnratedStored ==
  LET u == UnratedIndices(worksheet, connected, rater_id, Assigned, {})
  IN  IF Len(u) > 0 THEN u[1] ELSE NoIndex

\* C10 as stated: turning on the unrated-only view puts the cursor on the
\* first index of the assigned range that has no rating by the rater,
\* whatever the cursor position was before.
C10_FirstUnratedAlways ==
  [][ (~show_unrated_only /\ show_unrated_only' /\ view' = "problem")
        => current_index' = FirstUnratedStored' ]_vars

\* C10 amended: turning on the unrated-only view leaves the cursor where it
\* is when its index has no rating by the rater; the cursor moves only off
\* an index that has one, and then to an assigned index before which every
\* assigned index has a rating.
C10_FirstUnratedOrStay ==
  [][ (~show_unrated_only /\ show_unrated_only' /\ view' = "problem") =>
        /\ Get(worksheet, current_index, rater_id) = NoRating
             => current_index' = current_index
        /\ current_index' # current_index =>
             /\ Get(worksheet, current_index, rater_id) # NoRating
             /\ current_index' \in Elems(Assigned)
             /\ \A j \in Elems(Assigned) :
                  j < current_index' => Get(worksheet, j, rater_id) # NoRating
      ]_vars

\* C10 witness: the view is on and shows a problem, with the cursor on an
\* unrated index that is not the first unrated one.
C10_Witness ==
  /\ show_unrated_only /\ view = "problem"
  /\ Get(worksheet, current_index, rater_id) = NoRating
  /\ FirstUnratedStored < current_index

\* ------------------------------------------- claims on concurrent sessions
\* The sessions that have picked a name picked different names.
DistinctRaters ==
  \A v \in Writers, w \in Writers :
    (v # w /\ ops[v].rater # "") => ops[v].rater # ops[w].rater

\* C3: once all set operations of sessions with different rater_ids have
\* completed, the store holds exactly one row per written key, carrying the
\* rating of that key's last set, whatever the interleaving of their scan
\* and write steps.
C3_NoWriteLost ==
  (DistinctRaters /\ \A w \in Writers : ops[w].pc = "idle") =>
    \A key \in Keys :
      IF last_set[key] = NoRating
      THEN RowsOfKey(worksheet, key[1], key[2]) = {}
      ELSE /\ Cardinality(RowsOfKey(worksheet, key[1], key[2])) = 1
           /\ \A k \in RowsOfKey(worksheet, key[1], key[2]) :
                worksheet[k][3] = last_set[key]

\* C4: no two sessions that picked their names from the selector ever have
\* a set in progress on the same key, and the store never contains two rows
\* for one key.
C4_NoContention ==
  /\ \A v \in Writers, w \in Writers :
       (v # w /\ ops[v].pc # "idle" /\ ops[w].pc # "idle") =>
         ~(ops[v].pi = ops[w].pi /\ ops[v].rater = ops[w].rater)
  /\ \A key \in Keys : Cardinality(RowsOfKey(worksheet, key[1], key[2])) <= 1

\* ------------------------------------------------ claims on the filter
\* Does every index of the rater's assigned range have a row by the rater?
HasAllRated(ws, rater, N) ==
  \A i \in Elems(AssignedProblems(rater, N)) : RowsOfKey(ws, i, rater) # {}

\* The worksheet the unrated filter of a step read: the completion branch and
\* a failed set end in the run whose filter ran before the save, every other
\* step ends in a run that saw the worksheet the step leaves.
SeenByFilter == IF out'.complete THEN worksheet ELSE worksheet'

\* C11 as stated: the unrated-only view signals 'all rated' if and only if
\* every index of the rater's assigned range has a stored rating by the rater.
C11_AllRatedIff ==
  [][ (show_unrated_only' /\ view' \in {"problem", "all_rated"}) =>
        (view' = "all_rated"
           <=> HasAllRated(SeenByFilter, rater_id', total_problems)) ]_vars

\* What the filter answers in the current state when its reads of the
\* indices in F raise: 'all rated' exactly when every assigned index has a
\* row by the rater and no read raises.
FilterAnswersAllRated ==
  (rater_id # "" /\ Len(Assigned) > 0) =>
    \A F \in SUBSET Elems(Assigned) :
      (Script(worksheet, connected, total_problems, current_index, rater_id,
              TRUE, F).view = "all_rated")
        <=> (connected /\ F = {}
             /\ HasAllRated(worksheet, rater_id, total_problems))

\* C11 amended: 'all rated' is signalled only when every index of the
\* assigned range has a stored rating by the rater (rows of other raters or
\* of other indices do not count), and it is signalled in such a state
\* whenever every read of the filter succeeds.
C11_AllRatedOnlyIf ==
  /\ []FilterAnswersAllRated
  /\ [][ (show_unrated_only' /\ view' = "all_rated") =>
           HasAllRated(SeenByFilter, rater_id', total_problems) ]_vars

\* C11 witness: 'all rated' is signalled while the worksheet also holds a
\* row of another rater.
C11_Witness ==
  /\ view = "all_rated" /\ show_unrated_only
  /\ HasAllRated(worksheet, rater_id, total_problems)
  /\ \E k \in DataRows : worksheet[k][4] # rater_id

\* --------------------------------------------- claims on lost ratings
\* C12: no step deletes a row, and a (problem_index, rater_id) pair that has
\* a stored rating has one after every step, whatever the interleaving of
\* the sessions' set operations.
C12_NeverLost ==
  [][ /\ Len(worksheet') >= Len(worksheet)
      /\ \A key \in Keys :
           RowsOfKey(worksheet, key[1], key[2]) # {} =>
             /\ RowsOfKey(worksheet, key[1], key[2])
                  \subseteq RowsOfKey(worksheet', key[1], key[2])
             /\ \A k \in RowsOfKey(worksheet', key[1], key[2]) :
                  worksheet'[k][3] \in RATING_SCALE ]_vars

\* C12 witness: the sets of the sessions have completed and the rows of two
\* different raters are both stored.
C12_Witness ==
  /\ Len(worksheet) = 3
  /\ worksheet[2][4] # worksheet[3][4]
  /\ \A w \in Writers : ops[w].pc = "idle" /\ ops[w].rater # ""

\* ------------------------------------------ claims on an unreachable store
\* What get, all and a run of main() answer in the current state when every
\* read of the store raises: absent for every key, the empty frame, every
\* assigned problem unrated, progress 0, and the run still shows the problem
\* under the cursor.
DegradedReads ==
  /\ LoadRatings(worksheet, connected, FALSE) = << >>
  /\ \A key \in Keys :
       GetRatingForProblem(LoadRatings(worksheet, connected, FALSE),
                           key[1], key[2]) = NoRating
  /\ (rater_id # "" /\ view \in {"problem", "problem_error", "all_rated"}) =>
       LET run == Script(worksheet, connected, total_problems, current_index,
                         rater_id, show_unrated_only, Elems(Assigned))
       IN  /\ UnratedIndices(worksheet, connected, rater_id, Assigned,
                             Elems(Assigned)) = Assigned
           /\ Progress(worksheet, connected, total_problems, rater_id, FALSE)
                = 0
           /\ run.view = "problem"
           /\ run.cur = current_index

\* C13: with the backing store unreachable get returns absent for every key
\* and all returns the empty frame, so every problem displays as unrated and
\* progress counts 0; the run goes on to show a problem, no run that only
\* reads changes the store, and the filter leaves the cursor where it is.
C13_UnreachableDegrades ==
  /\ []DegradedReads
  /\ [][ /\ out'.idx = NoIndex => Tail(worksheet') = Tail(worksheet)
         /\ ~connected =>
              /\ Tail(worksheet') = Tail(worksheet)
              /\ out'.num_rated = 0
              /\ view' # "all_rated"
              /\ rater_id' # "" /\ Len(AssignedProblems(rater_id',
                                                        total_problems)) > 0
                   => view' \in {"problem", "problem_error"}
              /\ (show_unrated_only' # show_unrated_only
                    /\ rater_id' = rater_id)
                   => current_index' = current_index ]_vars

\* C13 witness: the rater has a stored rating, and the last run, which
\* followed no set and whose read for the progress count raised, shows a
\* problem and counts 0.
C13_Witness ==
  /\ connected /\ view = "problem" /\ out.idx = NoIndex
  /\ \E k \in DataRows :
       worksheet[k][4] = rater_id /\ worksheet[k][1] \in Elems(Assigned)
  /\ out.num_rated = 0

\* ------------------------------------------------ claims on the cursor
\* C14: whenever a problem is displayed or rated the cursor is within the
\* rater's assigned range; a run that finds the cursor outside the range
\* resets it to the first index of the range before the filter and the
\* catalog read; every stored row has a problem_index within the assigned
\* range of the rater who wrote it.
C14_CursorInRange ==
  /\ [](view \in {"problem", "problem_error"} =>
          current_index \in Elems(Assigned))
  /\ [](out.idx # NoIndex => out.idx \in Elems(Assigned))
  /\ [](\A k \in DataRows :
          worksheet[k][1]
            \in Elems(AssignedProblems(worksheet[k][4], total_problems)))
  /\ [][ (view' = "problem" /\ current_index \notin Elems(Assigned')) =>
           \/ current_index' = Assigned'[1]
           \/ /\ show_unrated_only'
              /\ RowsOfKey(worksheet', Assigned'[1], rater_id') # {} ]_vars

\* C14 witness: Tom, whose range of a catalog of three is {0}, has rated;
\* the rater was then switched to Becky, whose range is {1, 2}, and Becky
\* has rated a problem of that range after the reset of the cursor.
C14_Witness ==
  /\ total_problems = 3 /\ rater_id = "Becky" /\ view = "problem"
  /\ \E j \in DataRows, k \in DataRows :
       worksheet[j][4] = "Tom" /\ worksheet[k][4] = "Becky"

\* ---------------------------------------------- claims on auto-advance
\* The assigned indices after / before index c.
After(c) == {j \in Elems(Assigned) : j > c}

Before(c) == {j \in Elems(Assigned) : j < c}

MaxOf(S) == CHOOSE x \in S : \A y \in S : y <= x

\* C15 as stated: after a successful set at c the cursor is exactly the next
\* assigned index and the session is not flagged complete, or, when c is the
\* last assigned index, the cursor stays at c and the session is flagged
\* complete.
C15_AdvanceExactlyNext ==
  [][ out'.result = "ok" =>
        IF After(out'.idx) # {}
        THEN current_index' = MinOf(After(out'.idx)) /\ ~out'.complete
        ELSE current_index' = out'.idx /\ out'.complete ]_vars

\* C15 amended: as stated while the unrated-only view is off or the next
\* assigned index has no rating; with the view on and the next index rated,
\* the run that follows the advance either signals 'all rated' with the
\* cursor on the next index or shows an assigned index before which every
\* assigned index has a rating.
C15_AdvanceThenFilter ==
  [][ out'.result = "ok" =>
        IF After(out'.idx) # {}
        THEN /\ ~out'.complete
             /\ \/ current_index' = MinOf(After(out'.idx))
                \/ /\ show_unrated_only
                   /\ view' = "problem"
                   /\ RowsOfKey(worksheet', MinOf(After(out'.idx)),
                                rater_id) # {}
                   /\ current_index' \in Elems(Assigned)
                   /\ \A j \in Before(current_index') :
                        RowsOfKey(worksheet', j, rater_id) # {}
        ELSE current_index' = out'.idx /\ out'.complete ]_vars

\* C15 witness: a set succeeded at an index that is not the last one while
\* the unrated-only view was on, and the run after the advance moved the
\* cursor off the next index.
C15_Witness ==
  /\ out.result = "ok" /\ ~out.complete
  /\ show_unrated_only /\ view = "problem"
  /\ After(out.idx) # {}
  /\ current_index # MinOf(After(out.idx))

\* ------------------------------------------------ claims on navigation
\* What every step of "Previous" or "Next" has: it starts on a page that
\* shows a problem, makes no set and leaves the rater and the checkbox alone.
NavStep ==
  /\ view = "problem" /\ out'.idx = NoIndex
  /\ rater_id' = rater_id /\ show_unrated_only' = show_unrated_only

\* C16 as stated: "Previous" is not taken at the first and "Next" not at the
\* last assigned index; elsewhere "Next" moves the cursor to exactly the next
\* and "Previous" to exactly the previous index of the assigned range, and
\* neither changes the rows.
C16_ExactNeighbours ==
  [][ /\ (NavStep /\ Previous) =>
           /\ Before(current_index) # {}
           /\ current_index' = MaxOf(Before(current_index))
           /\ Tail(worksheet') = Tail(worksheet)
      /\ (NavStep /\ NextProblem) =>
           /\ After(current_index) # {}
           /\ current_index' = MinOf(After(current_index))
           /\ Tail(worksheet') = Tail(worksheet) ]_vars

\* Has the rater a row for index c?
Rated(c) == RowsOfKey(worksheet, c, rater_id) # {}

\* C16 amended: as stated, except that with the unrated-only view on the
\* cursor may end elsewhere than on the neighbour, and then only when the
\* index displayed or that neighbour has a rating by the rater.
C16_NeighboursThenFilter ==
  [][ /\ (NavStep /\ Previous) =>
           /\ Tail(worksheet') = Tail(worksheet)
           /\ last_set' = last_set
           /\ current_index' \in Elems(Assigned)
           /\ Before(current_index) # {}
           /\ \/ /\ current_index' = MaxOf(Before(current_index))
                 /\ view' = "problem"
              \/ /\ show_unrated_only
                 /\ \/ Rated(current_index)
                    \/ Rated(MaxOf(Before(current_index)))
      /\ (NavStep /\ NextProblem) =>
           /\ Tail(worksheet') = Tail(worksheet)
           /\ last_set' = last_set
           /\ current_index' \in Elems(Assigned)
           /\ After(current_index) # {}
           /\ \/ /\ current_index' = MinOf(After(current_index))
                 /\ view' = "problem"
              \/ /\ show_unrated_only
                 /\ \/ Rated(current_index)
                    \/ Rated(MinOf(After(current_index))) ]_vars

\* C16 witness: with no set made and the view off, the cursor stands on the
\* last index of a range of three, where "Next" is disabled and "Previous"
\* is not.
C16_Witness ==
  /\ total_problems = 3 /\ rater_id = "Patrick" /\ view = "problem"
  /\ ~show_unrated_only /\ Len(worksheet) = 1
  /\ current_index = 2
  /\ After(current_index) = {} /\ Before(current_index) = {0, 1}

\* -------------------------------------------------- claims on progress
\* The assigned indices that have a row by the rater.
RatedIndices == {i \in Elems(Assigned) : Rated(i)}

\* C17: on every page that shows the progress indicator, num_rated is the
\* number of distinct assigned indices that have a rating by the rater, and
\* so it never exceeds num_assigned.
C17_ProgressCountsDistinct ==
  view = "problem" =>
    /\ out.num_rated = Cardinality(RatedIndices)
    /\ out.num_rated <= Len(Assigned)

\* ------------------------------------------------ claims on completion
\* C18: the page says 'All your assigned problems rated!' only when every
\* index of the rater's assigned range has a stored rating by the rater,
\* whatever the order of jumps, Previous/Next and ratings.
C18_CompleteOnlyWhenAllRated ==
  out.complete => RatedIndices = Elems(Assigned)

\* ------------------------------------------- claims on the assigned range
\* C19: with a catalog of at least one problem the assigned range of the
\* selected rater is not empty, and the run that initialises the cursor to
\* its first element and derives the jump bounds from it does not fail.
C19_RangeNeverEmpty ==
  (total_problems >= 1 /\ rater_id # "") =>
    /\ Len(Assigned) > 0
    /\ view # "error"

\* ----------------------------------------- claims on the unrated-only view
\* Where a successful set that is not at the last assigned index puts the
\* cursor before the rerun.
AdvanceTarget == MinOf(After(out'.idx))

\* A step of "Go" to problem number j, told from the other steps cheaply.
GoStep(j) ==
  /\ out'.idx = NoIndex /\ rater_id' = rater_id
  /\ show_unrated_only' = show_unrated_only
  /\ Go(j)

\* C20 as stated: while the unrated-only view is on the problem displayed
\* has no rating by the rater; a jump or an auto-advance that lands on a
\* rated index is redirected to the first unrated assigned index, and one
\* that lands on an unrated index leaves the cursor there.
C20_DisplayedIsUnrated ==
  [][ (show_unrated_only' /\ view' = "problem") =>
        /\ RowsOfKey(SeenByFilter, current_index', rater_id') = {}
        /\ \A j \in 1..MaxProblems :
             GoStep(j) =>
               current_index' = IF Rated(j - 1) THEN FirstUnratedStored'
                                ELSE j - 1
        /\ (out'.result = "ok" /\ ~out'.complete) =>
             current_index' =
               IF RowsOfKey(worksheet', AdvanceTarget, rater_id) # {}
               THEN FirstUnratedStored' ELSE AdvanceTarget ]_vars

\* The indices the filter counts as unrated when its reads of the indices
\* in F raise: those without a row by the rater and those whose read raises.
CountedUnrated(F) ==
  {i \in Elems(Assigned) : ~Rated(i) \/ i \in F \/ ~connected}

\* What the filter does in the current state with the cursor landing on any
\* assigned index t and the reads of any indices F raising: 'all rated' when
\* it counts no index as unrated, else it shows t when it counts t as
\* unrated and the first index it counts as unrated otherwise.
FilterRedirects ==
  (rater_id # "" /\ Len(Assigned) > 0) =>
    \A t \in Elems(Assigned), F \in SUBSET Elems(Assigned) :
      LET run == Script(worksheet, connected, total_problems, t, rater_id,
                        TRUE, F)
      IN  IF CountedUnrated(F) = {}
          THEN run.view = "all_rated"
          ELSE /\ run.view = "problem"
               /\ run.cur = IF t \in CountedUnrated(F) THEN t
                            ELSE MinOf(CountedUnrated(F))

\* C20 amended: while the unrated-only view is on the problem displayed is
\* one the filter counts as unrated, which is one with no rating by the
\* rater whenever the filter's reads succeed; a jump or an auto-advance that
\* lands on an index without a rating leaves the cursor there, and one that
\* lands on a rated index stays there only by a failed read and otherwise
\* goes to an assigned index before which every index has a rating.
C20_DisplayedCountedUnrated ==
  /\ []FilterRedirects
  /\ [][ (show_unrated_only' /\ view' = "problem") =>
           /\ current_index' \in Elems(Assigned')
           /\ \A j \in 1..MaxProblems :
                GoStep(j) =>
                  \/ current_index' = j - 1
                  \/ /\ Rated(j - 1)
                     /\ \A i \in Before(current_index') : Rated(i)
           /\ (out'.result = "ok" /\ ~out'.complete) =>
                \/ current_index' = AdvanceTarget
                \/ /\ RowsOfKey(worksheet', AdvanceTarget, rater_id) # {}
                   /\ \A i \in Before(current_index') :
                        RowsOfKey(worksheet', i, rater_id) # {} ]_vars

\* C20 witness: the unrated-only view is on and shows, after a run that
\* followed no set, the only index without a rating, between two rated ones.
C20_Witness ==
  /\ show_unrated_only /\ view = "problem" /\ out.idx = NoIndex
  /\ ~Rated(current_index)
  /\ \E j \in Before(current_index) : Rated(j)
  /\ \E j \in After(current_index) : Rated(j)

====
